---- MODULE Spec2Model ----
(***************************************************************************)
(* A model of src/app.py: the transcript normalizer (clean_messages), the  *)
(* token trimming of the context (limit_context), the bounded retry loop   *)
(* of gen_reply, and the per-user session handling of on_message and       *)
(* RoleSelect.callback.                                                    *)
(*                                                                         *)
(* A Python str is a sequence of one-character strings, so that strip(),  *)
(* split() and f-string concatenation are computed, not assumed.           *)
(*                                                                         *)
(* The specifications share the module; each leaves the variables of the   *)
(* others at their initial values:                                         *)
(*   SpecLimit  limit_context applied to every bounded input               *)
(*   SpecFormat format_history_for_prompt applied to every bounded input   *)
(*   SpecClean  clean_messages applied to every bounded input              *)
(*   SpecRetry  the retry loop of gen_reply, one step per service call     *)
(*   Spec       sessions, on_message handlers interleaved at their awaits  *)
(*   SpecUsers  the same handlers, two users each with a session of theirs *)
(***************************************************************************)
EXTENDS Integers, Sequences, FiniteSets, Bags, TLC

VARIABLES
    \* ---- limit_context (SpecLimit)
    tok,        \* the tokenizer: line -> number of tokens (encoding.encode)
    lc_lines,   \* argument `lines`
    lc_max,     \* argument `max_tokens`
    lc_out,     \* the returned list
    lc_pc,      \* "call" before the call, "returned" after it
    \* ---- clean_messages (SpecClean)
    cm_raw,     \* argument `raw`
    cm_res,     \* the outcome of the call: a list, or the exception raised
    cm_pc,      \* "call", "returned", "raised"
    \* ---- gen_reply's retry loop (SpecRetry)
    g_retries,  \* argument `retries`
    g_attempt,  \* the loop variable `attempt`
    g_log,      \* what the loop has done so far: service calls and sleeps
    g_pc,       \* "search", "loop", "sleeping", "returned", "raised"
    g_result,   \* the value returned, or the exception raised
    \* ---- format_history_for_prompt (SpecFormat)
    fh_history, \* argument `history`
    fh_role,    \* argument `role_name`
    fh_limit,   \* argument `limit`
    fh_out,     \* the returned list
    fh_pc,      \* "call" before the call, "returned" after it
    \* ---- sessions and handlers (Spec)
    sessions,   \* the global dict: user id -> Session
    running,    \* the on_message coroutines suspended at an await (a bag)
    pickers,    \* the role pickers (RoleView) shown so far
    effect      \* the last step: the message handled and what was sent or raised

limitVars == <<tok, lc_lines, lc_max, lc_out, lc_pc>>
cleanVars == <<cm_raw, cm_res, cm_pc>>
retryVars == <<g_retries, g_attempt, g_log, g_pc, g_result>>
formatVars == <<fh_history, fh_role, fh_limit, fh_out, fh_pc>>
sessVars  == <<sessions, running, pickers, effect>>
vars == <<limitVars, cleanVars, retryVars, formatVars, sessVars>>

\* Python's None. A value that may be None is None or a one-field record
\* wrapping the value (Str, FAISS below), so the two are always comparable.
None == [none |-> TRUE]

(***************************************************************************)
(* Strings                                                                 *)
(***************************************************************************)
\* The characters str.strip() and str.split() treat as whitespace.
Whitespace == {" ", "\t"}

RECURSIVE lstrip(_)
lstrip(s) ==
    IF s = <<>> THEN <<>>
    ELSE IF Head(s) \in Whitespace THEN lstrip(Tail(s)) ELSE s

RECURSIVE rstrip(_)
rstrip(s) ==
    IF s = <<>> THEN <<>>
    ELSE IF s[Len(s)] \in Whitespace THEN rstrip(SubSeq(s, 1, Len(s) - 1)) ELSE s

\* str.strip(): leading and trailing whitespace removed.
strip(s) == rstrip(lstrip(s))

RECURSIVE TakeWord(_)
TakeWord(s) ==
    IF s = <<>> \/ Head(s) \in Whitespace THEN <<>>
    ELSE <<Head(s)>> \o TakeWord(Tail(s))

\* str.split()[0]: the first whitespace-delimited token; split() of an empty
\* or all-whitespace string is [] and [0] raises IndexError.
HasWord(s) == lstrip(s) # <<>>
FirstWord(s) == TakeWord(lstrip(s))

\* str.startswith(prefix)
StartsWith(s, prefix) ==
    Len(s) >= Len(prefix) /\ SubSeq(s, 1, Len(prefix)) = prefix

(***************************************************************************)
(* limit_context, src/app.py:30-41                                         *)
(***************************************************************************)
\* The lines limit_context is tried on, and the bounds of its inputs.
LinePool == {<<"a">>, <<"b">>, <<"c">>}
MaxLines == 3
MaxTok == 3
MaxBudget == 4

RECURSIVE SeqsUpTo(_, _)
SeqsUpTo(S, n) ==
    IF n = 0 THEN {<<>>}
    ELSE LET shorter == SeqsUpTo(S, n - 1)
         IN shorter \cup {Append(s, x) : s \in {t \in shorter : Len(t) = n - 1}, x \in S}

RECURSIVE Reverse(_)
Reverse(s) == IF s = <<>> THEN <<>> ELSE Append(Reverse(Tail(s)), Head(s))

\* estimate_tokens(text): the length of the tokenizer's encoding of text.
estimate_tokens(ln) == tok[ln]

\* A bug limit_context could have: testing the budget before the line is added.
limit_step_late(total, n, max_tokens) == total > max_tokens

\* The loop's test: adding a line of n tokens would exceed the budget.
limit_step_breaks(total, n, max_tokens) == total + n > max_tokens

\* The loop of limit_context over reversed(lines): i is the index of the next
\* line (Len(lines) first), `out` the lines appended so far, newest first.
RECURSIVE limit_loop(_, _, _, _, _)
limit_loop(lines, i, total, out, max_tokens) ==
    IF i = 0 THEN out
    ELSE LET n == estimate_tokens(lines[i])
         IN IF limit_step_breaks(total, n, max_tokens) THEN out
            ELSE limit_loop(lines, i - 1, total + n, Append(out, lines[i]), max_tokens)

\* A bug limit_context could have: the collected lines returned newest first.
limit_context_newest_first(lines, max_tokens) ==
    limit_loop(lines, Len(lines), 0, <<>>, max_tokens)

limit_context(lines, max_tokens) == Reverse(limit_loop(lines, Len(lines), 0, <<>>, max_tokens))

RECURSIVE TokenSum(_)
TokenSum(lines) ==
    IF lines = <<>> THEN 0 ELSE estimate_tokens(Head(lines)) + TokenSum(Tail(lines))

\* The last k entries of s.
Suffix(s, k) == SubSeq(s, Len(s) - k + 1, Len(s))

(***************************************************************************)
(* clean_messages, src/app.py:44-59                                        *)
(***************************************************************************)
\* "<Media omitted>"
MediaOmitted == <<"<", "M", "e", "d", "i", "a", " ", "o", "m", "i", "t", "t", "e", "d", ">">>

\* A raw record is a dict: a function on the keys it holds.
HasKey(m, k) == k \in DOMAIN m

\* f'{sender}:{message}' as written in the source.
dedup_key(sender, message) == sender \o <<":">> \o message

\* not m.get("message") or m["message"] == "<Media omitted>"
skip_message(m) ==
    \/ ~HasKey(m, "message")
    \/ m.message = <<>>
    \/ m.message = MediaOmitted

\* The entry clean_messages appends for a record it keeps.
canonical(m) ==
    LET sender == strip(m.sender)
    IN [sender |-> sender, role |-> FirstWord(sender), message |-> strip(m.message)]

\* The loop of clean_messages from record i on. The result is the list
\* returned, or the exception that leaves the function: m["sender"] raises
\* KeyError, sender.split()[0] raises IndexError.
RECURSIVE clean_loop(_, _, _, _)
clean_loop(raw, i, seen, out) ==
    IF i > Len(raw) THEN [status |-> "ok", out |-> out]
    ELSE LET m == raw[i]
         IN IF skip_message(m) THEN clean_loop(raw, i + 1, seen, out)
            ELSE IF ~HasKey(m, "sender") THEN [status |-> "KeyError", out |-> <<>>]
            ELSE LET key == dedup_key(m.sender, m.message)
                 IN IF key \in seen THEN clean_loop(raw, i + 1, seen, out)
                    ELSE IF ~HasWord(strip(m.sender))
                         THEN [status |-> "IndexError", out |-> <<>>]
                         ELSE clean_loop(raw, i + 1, seen \cup {key}, Append(out, canonical(m)))

clean_messages(raw) == clean_loop(raw, 1, {}, <<>>)

(***************************************************************************)
(* SpecLimit: limit_context on every list of at most MaxLines lines, every *)
(* tokenizer giving a line at most MaxTok tokens, every budget to MaxBudget *)
(***************************************************************************)
LimitContextCall ==
    /\ lc_pc = "call"
    /\ lc_out' = limit_context(lc_lines, lc_max)
    /\ lc_pc' = "returned"
    /\ UNCHANGED <<tok, lc_lines, lc_max>>

(***************************************************************************)
(* SpecClean: clean_messages on every list of at most MaxRaw raw records   *)
(***************************************************************************)
MaxRaw == 2

SenderPool == {<<"A">>, <<" ", "A">>, <<"A", ":">>, <<" ">>, <<"B", " ", "x">>}
MessagePool ==
    {<<"h">>, <<":", "h">>, <<" ">>, <<>>, MediaOmitted, <<" ">> \o MediaOmitted}

RawRecords ==
    {[sender |-> s, message |-> t] : s \in SenderPool, t \in MessagePool}
        \cup {[sender |-> s] : s \in SenderPool}
        \cup {[message |-> t] : t \in MessagePool}

CleanReturns ==
    /\ cm_pc = "call"
    /\ clean_messages(cm_raw).status = "ok"
    /\ cm_res' = clean_messages(cm_raw)
    /\ cm_pc' = "returned"
    /\ UNCHANGED cm_raw

CleanRaises ==
    /\ cm_pc = "call"
    /\ clean_messages(cm_raw).status # "ok"
    /\ cm_res' = clean_messages(cm_raw)
    /\ cm_pc' = "raised"
    /\ UNCHANGED cm_raw

(***************************************************************************)
(* gen_reply's retry loop, src/app.py:94-150                               *)
(*                                                                         *)
(* gen_reply runs in one worker thread (asyncio.to_thread): the search,    *)
(* each co.generate call and each time.sleep is one step. `retries` is     *)
(* drawn from 1..MaxRetries (on_message passes the default, 3); with       *)
(* retries >= 1 the last iteration returns or raises, so the for loop      *)
(* never runs out.                                                         *)
(***************************************************************************)
MaxRetries == 3
MaxCandidates == 2
DefaultDelay == 4

\* The exceptions a service call is tried with, and the candidate texts.
Errors == {"E1", "E2"}
CandidatePool == {<<" ", "o", "k", "\t">>, <<"n", "o">>}
Responses == SeqsUpTo(CandidatePool, MaxCandidates) \ {<<>>}

\* A bug gen_reply could have: the candidate's text returned as it came.
reply_text_unstripped(generations) == generations[1]

\* response.generations[0].text.strip()
reply_text(generations) == strip(generations[1])

\* A bug gen_reply could have: sleeping after the last attempt as well.
sleeps_after_always(attempt, retries) == attempt < retries

\* attempt < retries - 1: the failed attempt is not the last one.
sleeps_after(attempt, retries) == attempt < retries - 1

\* store.similarity_search(...) returned: the loop starts with attempt 0.
GenSearch ==
    /\ g_pc = "search"
    /\ g_pc' = "loop"
    /\ UNCHANGED <<g_retries, g_attempt, g_log, g_result>>

\* store.similarity_search(...) raised (it embeds the query): the exception
\* leaves gen_reply, outside the retry loop.
GenSearchFails ==
    /\ g_pc = "search"
    /\ \E e \in Errors :
        /\ g_result' = [raised |-> e]
        /\ g_pc' = "raised"
    /\ UNCHANGED <<g_retries, g_attempt, g_log>>

\* co.generate(...) returned a response: its first candidate, stripped, is returned.
GenerateReturns ==
    /\ g_pc = "loop"
    /\ g_attempt < g_retries
    /\ \E gens \in Responses :
        /\ g_log' = Append(g_log, [kind |-> "call", generations |-> gens])
        /\ g_result' = [returned |-> reply_text(gens)]
    /\ g_pc' = "returned"
    /\ UNCHANGED <<g_retries, g_attempt>>

\* co.generate(...) raised e: sleep if this was not the last attempt, else raise e.
GenerateFails ==
    /\ g_pc = "loop"
    /\ g_attempt < g_retries
    /\ \E e \in Errors :
        /\ g_log' = Append(g_log, [kind |-> "call", error |-> e])
        /\ IF sleeps_after(g_attempt, g_retries)
           THEN g_pc' = "sleeping" /\ g_result' = g_result
           ELSE g_pc' = "raised" /\ g_result' = [raised |-> e]
    /\ UNCHANGED <<g_retries, g_attempt>>

\* time.sleep(delay) returned: the next iteration of the for loop.
GenSleep ==
    /\ g_pc = "sleeping"
    /\ g_log' = Append(g_log, [kind |-> "sleep", secs |-> DefaultDelay])
    /\ g_attempt' = g_attempt + 1
    /\ g_pc' = "loop"
    /\ UNCHANGED <<g_retries, g_result>>

\* What the log says.
IsCall(ev) == ev.kind = "call"
Failed(ev) == ev.kind = "call" /\ "error" \in DOMAIN ev
Succeeded(ev) == ev.kind = "call" /\ "generations" \in DOMAIN ev
Calls == {i \in 1..Len(g_log) : IsCall(g_log[i])}
Sleeps == {i \in 1..Len(g_log) : g_log[i].kind = "sleep"}

(***************************************************************************)
(* format_history_for_prompt, src/app.py:76-92                             *)
(*                                                                         *)
(* role_name is a str here, as the function's docstring has it.            *)
(***************************************************************************)
\* The windows gen_reply calls it with: 6 for the context, 3 for the
\* recent-conversation block of the prompt.
ContextWindow == 6
RecentWindow == 3
Windows == {ContextWindow, RecentWindow}

\* The length of the longest history tried, and the entries it is made of:
\* a user line and a persona line that need normalizing, a line of another
\* persona, a line without a label.
MaxEntries == 7
EntryPool ==
    {<<"Y", "o", "u", ":", "q", " ">>, <<"A", ":", " ", " ", "r">>,
     <<"B", ":", "z">>, <<"x">>}
RoleNames == {<<"A">>, <<"B">>}

\* A bug format_history_for_prompt could have: history[:limit], the first
\* `limit` entries.
first_entries(history, limit) ==
    SubSeq(history, 1, IF limit < Len(history) THEN limit ELSE Len(history))

\* history[-limit:]: the slice starts `limit` entries before the end, at the
\* first entry when there are fewer; -0 is 0, the whole list.
last_entries(history, limit) ==
    LET n == Len(history)
        start == IF limit = 0 \/ limit > n THEN 0 ELSE n - limit
    IN SubSeq(history, start + 1, n)

\* The line appended for one entry (lines 85-91).
format_entry(entry, user_name, role_name) ==
    IF StartsWith(entry, <<"Y", "o", "u", ":">>)
    THEN user_name \o <<":", " ">> \o strip(SubSeq(entry, 5, Len(entry)))
    ELSE IF StartsWith(entry, role_name \o <<":">>)
    THEN role_name \o <<":", " ">> \o strip(SubSeq(entry, Len(role_name) + 2, Len(entry)))
    ELSE entry

format_history_for_prompt(history, user_name, role_name, limit) ==
    LET hist == last_entries(history, limit)
    IN [i \in 1..Len(hist) |-> format_entry(hist[i], user_name, role_name)]

\* gen_reply's calls (lines 100 and 129): user_name="You", role_name=role.
FormatHistoryCall ==
    /\ fh_pc = "call"
    /\ fh_out' = format_history_for_prompt(fh_history, <<"Y", "o", "u">>, fh_role, fh_limit)
    /\ fh_pc' = "returned"
    /\ UNCHANGED <<fh_history, fh_role, fh_limit>>

(***************************************************************************)
(* Sessions, src/app.py:153-160                                            *)
(***************************************************************************)
Users == {"u1", "u2"}

\* The bounds of the model: on_message coroutines suspended at one time, and
\* the length of a history at which no further text message is taken.
MaxRunning == 2
MaxHist == 2

\* A str held where None may be held, and the index build_vector returns
\* (what it was built from is all the model keeps of it).
Str(s) == [str |-> s]
FAISS(msgs) == [docs |-> msgs]

\* Session.__init__
NewSession == [vector |-> None, history |-> <<>>, roles |-> <<>>, role |-> None]

\* sessions.setdefault(uid, Session())
setdefault(ss, uid) ==
    IF uid \in DOMAIN ss THEN ss
    ELSE [u \in DOMAIN ss \cup {uid} |-> IF u = uid THEN NewSession ELSE ss[u]]

\* The code points of the characters the model's strings are made of.
CodePoint ==
    [c \in {"\t", " ", ":", "<", ">", "A", "B", "M", "N", "Y", "a", "d", "e", "h",
            "i", "k", "m", "n", "o", "q", "r", "t", "u", "x"} |->
        CASE c = "\t" -> 9   [] c = " " -> 32  [] c = ":" -> 58  [] c = "<" -> 60
          [] c = ">" -> 62   [] c = "A" -> 65  [] c = "B" -> 66  [] c = "M" -> 77
          [] c = "N" -> 78   [] c = "Y" -> 89  [] c = "a" -> 97  [] c = "d" -> 100
          [] c = "e" -> 101  [] c = "h" -> 104 [] c = "i" -> 105 [] c = "k" -> 107
          [] c = "m" -> 109  [] c = "n" -> 110 [] c = "o" -> 111 [] c = "q" -> 113
          [] c = "r" -> 114  [] c = "t" -> 116 [] c = "u" -> 117 [] c = "x" -> 120]

\* a < b as Python compares str: by code point, a proper prefix first.
RECURSIVE StrLess(_, _)
StrLess(a, b) ==
    IF b = <<>> THEN FALSE
    ELSE IF a = <<>> THEN TRUE
    ELSE IF Head(a) = Head(b) THEN StrLess(Tail(a), Tail(b))
    ELSE CodePoint[Head(a)] < CodePoint[Head(b)]

\* sorted(S) for a set S of str.
RECURSIVE sorted(_)
sorted(S) ==
    IF S = {} THEN <<>>
    ELSE LET least == CHOOSE x \in S : \A y \in S \ {x} : StrLess(x, y)
         IN <<least>> \o sorted(S \ {least})

\* A bug on_message could have: the roles listed as the transcript gives
\* them, neither sorted nor made distinct.
roles_as_given(msgs) == [i \in 1..Len(msgs) |-> msgs[i].role]

\* sorted({m["role"] for m in cleaned})
roles_of(msgs) == sorted({msgs[i].role : i \in 1..Len(msgs)})

\* A bug on_message could have: a reply allowed as soon as an index is set.
chat_ready_index_only(session) == session.vector # None

\* session.vector and session.role: a FAISS object is always true, a str is
\* true unless empty.
chat_ready(session) ==
    /\ session.vector # None
    /\ session.role # None
    /\ session.role.str # <<>>

\* f"You: {message.content}"
user_line(content) == <<"Y", "o", "u", ":", " ">> \o content

\* f"{session.role}: {reply}"; None is formatted as "None".
persona_line(role, reply) ==
    (IF role = None THEN <<"N", "o", "n", "e">> ELSE role.str) \o <<":", " ">> \o reply

(***************************************************************************)
(* on_message and RoleSelect.callback, src/app.py:163-249                  *)
(*                                                                         *)
(* The event loop runs one coroutine at a time and switches only at an     *)
(* await, so an action below is the code from one await to the next that   *)
(* is followed by a read or write of the session. A coroutine suspended    *)
(* at such an await is an element of the bag `running`: where it stands,   *)
(* the message it handles and its local `cleaned`. Sends are taken to      *)
(* succeed; the embedding and the generation service may fail. A picker    *)
(* that has timed out (RoleView, timeout=120) is one nobody selects from.  *)
(***************************************************************************)
\* The transcripts uploaded: one persona, with a repeated record and a media
\* placeholder of somebody else; two personas, given out of order; nothing
\* usable; a record without a sender.
T1 == <<[sender |-> <<"A">>, message |-> <<"h">>],
        [sender |-> <<"A">>, message |-> <<"h">>],
        [sender |-> <<"B">>, message |-> MediaOmitted]>>
T2 == <<[sender |-> <<"B", " ", "x">>, message |-> <<"h">>],
        [sender |-> <<"A">>, message |-> <<"h">>]>>
TEmpty == <<[sender |-> <<"A">>, message |-> MediaOmitted]>>
TBad == <<[message |-> <<"h">>]>>

\* An attachment: whether its filename ends with ".json", and the value
\* json.loads gives for its bytes (taken to be a JSON list of objects).
JsonFile(raw) == [json |-> TRUE, raw |-> raw]
TextFile == [json |-> FALSE, raw |-> <<>>]

ContentPool == {<<"q">>}
ReplyPool == {<<"r">>}
RolePool == {<<"A">>, <<"B">>}

Upload(u, atts) == [kind |-> "upload", uid |-> u, attachments |-> atts]
Text(u, c) == [kind |-> "text", uid |-> u, content |-> c]
Select(u, r) == [kind |-> "select", uid |-> u, role |-> r]

\* The messages on_message is tried on: every kind of upload for the first
\* user, a text message for either user, and a message on_message ignores
\* (the bot's own, or not a DM).
Messages ==
    {Upload("u1", a) : a \in {<<TextFile, JsonFile(T1)>>, <<JsonFile(T2)>>,
                              <<JsonFile(TEmpty)>>, <<JsonFile(TBad)>>, <<TextFile>>}}
        \cup {Text(u, c) : u \in Users, c \in ContentPool}
        \cup {[kind |-> "ignored"]}

\* What a step does to the outside: a message sent, a service called, an
\* exception that leaves the handler, or nothing.
Sent(what) == [op |-> "send", what |-> what]
SentError(e) == [op |-> "send", what |-> "error", error |-> e]
Called(what) == [op |-> "call", what |-> what]
CalledWith(what, args) == [op |-> "call", what |-> what, args |-> args]
Raised(e) == [op |-> "raise", what |-> e]
Nothing == [op |-> "none"]

\* The last step: the kind of message handled, whose it is, and what the
\* step did to the outside.
Effect(m, out) ==
    IF m.kind \in {"ignored", "none"} THEN [kind |-> m.kind, out |-> out]
    ELSE [kind |-> m.kind, uid |-> m.uid, out |-> out]

\* A suspended coroutine.
Coroutine(at, m, cl) == [pc |-> at, msg |-> m, cleaned |-> cl]
Suspend(co) == running (+) SetToBag({co})
Resume(co) == running (-) SetToBag({co})
Suspended(at) == {co \in BagToSet(running) : co.pc = at}

\* The first attachment of the message whose filename ends with ".json":
\* the for loop handles it and returns.
JsonAttachments(m) == {i \in 1..Len(m.attachments) : m.attachments[i].json}
first_json(m) ==
    m.attachments[CHOOSE i \in JsonAttachments(m) : \A j \in JsonAttachments(m) : i <= j]

\* Lines 195-196: the bot's own message, or not a DM.
OnMessageIgnored(m) ==
    /\ m.kind = "ignored"
    /\ effect' = Effect(m, Nothing)
    /\ UNCHANGED <<sessions, running, pickers>>

\* Lines 198-213 and 226-227: a message with attachments, up to the await of
\* build_vector. The awaits before it (the "Processing" message and
\* att.read(), lines 206-207) are followed by code on locals only
\* (json.loads, clean_messages, the test of `cleaned`), so that code is taken
\* in the same step. An exception of clean_messages leaves the handler.
OnMessageUpload(m) ==
    /\ m.kind = "upload"
    /\ sessions' = setdefault(sessions, m.uid)
    /\ IF JsonAttachments(m) = {}
       THEN /\ running' = running
            /\ effect' = Effect(m, Sent("need_json"))
       ELSE LET res == clean_messages(first_json(m).raw)
            IN IF res.status # "ok"
               THEN /\ running' = running
                    /\ effect' = Effect(m, Raised(res.status))
               ELSE IF res.out = <<>>
               THEN /\ running' = running
                    /\ effect' = Effect(m, Sent("no_usable"))
               ELSE /\ BagCardinality(running) < MaxRunning
                    /\ running' = Suspend(Coroutine("building", m, res.out))
                    /\ effect' = Effect(m, Called("build_vector"))
    /\ UNCHANGED pickers

\* A bug on_message could have: an await between the assignments, so that
\* the index and the roles are already those of the new upload while role and
\* history are still the old ones.
UploadBuiltTorn(co) ==
    /\ co \in Suspended("building")
    /\ LET uid == co.msg.uid
           roles == roles_of(co.cleaned)
       IN /\ sessions' = [sessions EXCEPT ![uid].vector = FAISS(co.cleaned),
                                          ![uid].roles = roles]
          /\ pickers' = pickers \cup {[uid |-> uid, roles |-> roles]}
    /\ running' = Resume(co)
    /\ effect' = Effect(co.msg, Sent("picker"))

\* Lines 213-225: build_vector returned; the four fields are assigned with no
\* await between them, then the role picker is sent.
UploadBuilt(co) ==
    /\ co \in Suspended("building")
    /\ LET uid == co.msg.uid
           roles == roles_of(co.cleaned)
       IN /\ sessions' = [sessions EXCEPT ![uid] =
                 [vector |-> FAISS(co.cleaned), roles |-> roles,
                  role |-> None, history |-> <<>>]]
          /\ pickers' = pickers \cup {[uid |-> uid, roles |-> roles]}
    /\ running' = Resume(co)
    /\ effect' = Effect(co.msg, Sent("picker"))

\* A bug on_message could have: role and history cleared before the index is
\* known to be built.
UploadBuildFailsCleared(co) ==
    /\ co \in Suspended("building")
    /\ \E e \in Errors : effect' = Effect(co.msg, Raised(e))
    /\ running' = Resume(co)
    /\ sessions' = [sessions EXCEPT ![co.msg.uid].role = None, ![co.msg.uid].history = <<>>]
    /\ UNCHANGED pickers

\* Line 213: build_vector raised (the embedding service failed): nothing is
\* assigned and the exception leaves the handler.
UploadBuildFails(co) ==
    /\ co \in Suspended("building")
    /\ \E e \in Errors : effect' = Effect(co.msg, Raised(e))
    /\ running' = Resume(co)
    /\ UNCHANGED <<sessions, pickers>>

\* Lines 198-200 and 229-237: a text message, up to the first await: the
\* guidance when no index or no role is set, else the user's line is
\* appended and the typing indicator awaited. (A text message is taken only
\* while the history is shorter than MaxHist: the bound of the model.)
OnMessageText(m) ==
    /\ m.kind = "text"
    /\ LET ss == setdefault(sessions, m.uid)
       IN IF ~chat_ready(ss[m.uid])
          THEN /\ sessions' = ss
               /\ running' = running
               /\ effect' = Effect(m, Sent("guidance"))
          ELSE /\ Len(ss[m.uid].history) < MaxHist
               /\ BagCardinality(running) < MaxRunning
               /\ sessions' = [ss EXCEPT ![m.uid].history = Append(@, user_line(m.content))]
               /\ running' = Suspend(Coroutine("typing", m, <<>>))
               /\ effect' = Effect(m, Called("typing"))
    /\ UNCHANGED pickers

\* gen_reply's arguments as line 240 evaluates them: the session's index,
\* its history list and its role at the time of the call.
gen_reply_args(m, session) ==
    [user_msg |-> m.content, store |-> session.vector,
     history |-> session.history, role |-> session.role]

\* Lines 237-241: the typing indicator is on; gen_reply is started in a thread.
ReplyCall(co) ==
    /\ co \in Suspended("typing")
    /\ running' = Resume(co) (+) SetToBag({Coroutine("generating", co.msg, <<>>)})
    /\ effect' = Effect(co.msg, CalledWith("gen_reply", gen_reply_args(co.msg, sessions[co.msg.uid])))
    /\ UNCHANGED <<sessions, pickers>>

\* Lines 246-249: gen_reply returned; the persona's line is appended under
\* the role the session has now, and the reply is sent.
ReplyDone(co) ==
    /\ co \in Suspended("generating")
    /\ \E reply \in ReplyPool :
        LET uid == co.msg.uid
        IN sessions' = [sessions EXCEPT ![uid].history =
                            Append(@, persona_line(sessions[uid].role, reply))]
    /\ running' = Resume(co)
    /\ effect' = Effect(co.msg, Sent("reply"))
    /\ UNCHANGED pickers

\* Lines 242-244: gen_reply raised; the error is sent and the handler returns.
ReplyFails(co) ==
    /\ co \in Suspended("generating")
    /\ \E e \in Errors : effect' = Effect(co.msg, SentError(e))
    /\ running' = Resume(co)
    /\ UNCHANGED <<sessions, pickers>>

\* A bug the callback could have: the role kept in one place for all users,
\* so that a selection sets it on every session.
RoleSelectCallbackAll(p, r) ==
    /\ p \in pickers
    /\ \E i \in 1..Len(p.roles) : p.roles[i] = r
    /\ sessions' = [u \in DOMAIN sessions |-> [sessions[u] EXCEPT !.role = Str(r)]]
    /\ effect' = Effect(Select(p.uid, r), Sent("role_set"))
    /\ UNCHANGED <<running, pickers>>

\* RoleSelect.callback, lines 170-176: the user picks an option of a picker.
RoleSelectCallback(p, r) ==
    /\ p \in pickers
    /\ \E i \in 1..Len(p.roles) : p.roles[i] = r
    /\ sessions' = [sessions EXCEPT ![p.uid].role = Str(r)]
    /\ effect' = Effect(Select(p.uid, r), Sent("role_set"))
    /\ UNCHANGED <<running, pickers>>

(***************************************************************************)
(* The specifications. Each keeps the variables of the others at their     *)
(* initial values.                                                         *)
(***************************************************************************)
\* SpecLimit: limit_context on every list of at most MaxLines lines, every
\* tokenizer giving a line at most MaxTok tokens, every budget up to MaxBudget.
InitLimit ==
    /\ tok \in [LinePool -> 0..MaxTok]
    /\ lc_lines \in SeqsUpTo(LinePool, MaxLines)
    /\ lc_max \in 0..MaxBudget
    /\ lc_out = <<>>
    /\ lc_pc = "call"
    /\ cm_raw = <<>>
    /\ cm_res = [status |-> "ok", out |-> <<>>]
    /\ cm_pc = "idle"
    /\ g_retries = 0
    /\ g_attempt = 0
    /\ g_log = <<>>
    /\ g_pc = "idle"
    /\ g_result = None
    /\ fh_history = <<>>
    /\ fh_role = <<>>
    /\ fh_limit = 0
    /\ fh_out = <<>>
    /\ fh_pc = "idle"
    /\ sessions = <<>>
    /\ running = EmptyBag
    /\ pickers = {}
    /\ effect = Effect([kind |-> "none"], Nothing)

NextLimit == LimitContextCall /\ UNCHANGED <<cleanVars, retryVars, formatVars, sessVars>>
SpecLimit == InitLimit /\ [][NextLimit]_vars

\* SpecClean: clean_messages on every list of at most MaxRaw raw records.
InitClean ==
    /\ tok = [l \in LinePool |-> 1]
    /\ lc_lines = <<>>
    /\ lc_max = 0
    /\ lc_out = <<>>
    /\ lc_pc = "idle"
    /\ cm_raw \in SeqsUpTo(RawRecords, MaxRaw)
    /\ cm_res = [status |-> "ok", out |-> <<>>]
    /\ cm_pc = "call"
    /\ g_retries = 0
    /\ g_attempt = 0
    /\ g_log = <<>>
    /\ g_pc = "idle"
    /\ g_result = None
    /\ fh_history = <<>>
    /\ fh_role = <<>>
    /\ fh_limit = 0
    /\ fh_out = <<>>
    /\ fh_pc = "idle"
    /\ sessions = <<>>
    /\ running = EmptyBag
    /\ pickers = {}
    /\ effect = Effect([kind |-> "none"], Nothing)

NextClean ==
    \/ CleanReturns /\ UNCHANGED <<limitVars, retryVars, formatVars, sessVars>>
    \/ CleanRaises /\ UNCHANGED <<limitVars, retryVars, formatVars, sessVars>>
SpecClean == InitClean /\ [][NextClean]_vars

\* SpecRetry: gen_reply with every `retries` from 1 to MaxRetries and every
\* outcome of each call of the services.
InitRetry ==
    /\ tok = [l \in LinePool |-> 1]
    /\ lc_lines = <<>>
    /\ lc_max = 0
    /\ lc_out = <<>>
    /\ lc_pc = "idle"
    /\ cm_raw = <<>>
    /\ cm_res = [status |-> "ok", out |-> <<>>]
    /\ cm_pc = "idle"
    /\ g_retries \in 1..MaxRetries
    /\ g_attempt = 0
    /\ g_log = <<>>
    /\ g_pc = "search"
    /\ g_result = None
    /\ fh_history = <<>>
    /\ fh_role = <<>>
    /\ fh_limit = 0
    /\ fh_out = <<>>
    /\ fh_pc = "idle"
    /\ sessions = <<>>
    /\ running = EmptyBag
    /\ pickers = {}
    /\ effect = Effect([kind |-> "none"], Nothing)

NextRetry ==
    \/ GenSearch /\ UNCHANGED <<limitVars, cleanVars, formatVars, sessVars>>
    \/ GenSearchFails /\ UNCHANGED <<limitVars, cleanVars, formatVars, sessVars>>
    \/ GenerateReturns /\ UNCHANGED <<limitVars, cleanVars, formatVars, sessVars>>
    \/ GenerateFails /\ UNCHANGED <<limitVars, cleanVars, formatVars, sessVars>>
    \/ GenSleep /\ UNCHANGED <<limitVars, cleanVars, formatVars, sessVars>>
SpecRetry == InitRetry /\ [][NextRetry]_vars

\* A call of a service returns or raises, and a sleep ends: the thread
\* gen_reply runs in is always scheduled again.
FairSpecRetry == SpecRetry /\ WF_vars(NextRetry)

\* SpecFormat: format_history_for_prompt on every history of at most
\* MaxEntries entries, either role name and either window of gen_reply.
InitFormat ==
    /\ tok = [l \in LinePool |-> 1]
    /\ lc_lines = <<>>
    /\ lc_max = 0
    /\ lc_out = <<>>
    /\ lc_pc = "idle"
    /\ cm_raw = <<>>
    /\ cm_res = [status |-> "ok", out |-> <<>>]
    /\ cm_pc = "idle"
    /\ g_retries = 0
    /\ g_attempt = 0
    /\ g_log = <<>>
    /\ g_pc = "idle"
    /\ g_result = None
    /\ fh_history \in SeqsUpTo(EntryPool, MaxEntries)
    /\ fh_role \in RoleNames
    /\ fh_limit \in Windows
    /\ fh_out = <<>>
    /\ fh_pc = "call"
    /\ sessions = <<>>
    /\ running = EmptyBag
    /\ pickers = {}
    /\ effect = Effect([kind |-> "none"], Nothing)

NextFormat == FormatHistoryCall /\ UNCHANGED <<limitVars, cleanVars, retryVars, sessVars>>
SpecFormat == InitFormat /\ [][NextFormat]_vars

\* Spec: no session yet, no coroutine running; any message may arrive at any
\* time and any suspended coroutine may be the next to resume.
Init ==
    /\ tok = [l \in LinePool |-> 1]
    /\ lc_lines = <<>>
    /\ lc_max = 0
    /\ lc_out = <<>>
    /\ lc_pc = "idle"
    /\ cm_raw = <<>>
    /\ cm_res = [status |-> "ok", out |-> <<>>]
    /\ cm_pc = "idle"
    /\ g_retries = 0
    /\ g_attempt = 0
    /\ g_log = <<>>
    /\ g_pc = "idle"
    /\ g_result = None
    /\ fh_history = <<>>
    /\ fh_role = <<>>
    /\ fh_limit = 0
    /\ fh_out = <<>>
    /\ fh_pc = "idle"
    /\ sessions = <<>>
    /\ running = EmptyBag
    /\ pickers = {}
    /\ effect = Effect([kind |-> "none"], Nothing)

Next ==
    \/ \E m \in Messages : OnMessageIgnored(m) /\ UNCHANGED <<limitVars, cleanVars, retryVars, formatVars>>
    \/ \E m \in Messages : OnMessageUpload(m) /\ UNCHANGED <<limitVars, cleanVars, retryVars, formatVars>>
    \/ \E m \in Messages : OnMessageText(m) /\ UNCHANGED <<limitVars, cleanVars, retryVars, formatVars>>
    \/ \E co \in BagToSet(running) :
           UploadBuilt(co) /\ UNCHANGED <<limitVars, cleanVars, retryVars, formatVars>>
    \/ \E co \in BagToSet(running) :
           UploadBuildFails(co) /\ UNCHANGED <<limitVars, cleanVars, retryVars, formatVars>>
    \/ \E co \in BagToSet(running) :
           ReplyCall(co) /\ UNCHANGED <<limitVars, cleanVars, retryVars, formatVars>>
    \/ \E co \in BagToSet(running) :
           ReplyDone(co) /\ UNCHANGED <<limitVars, cleanVars, retryVars, formatVars>>
    \/ \E co \in BagToSet(running) :
           ReplyFails(co) /\ UNCHANGED <<limitVars, cleanVars, retryVars, formatVars>>
    \/ \E p \in pickers, r \in RolePool :
           RoleSelectCallback(p, r) /\ UNCHANGED <<limitVars, cleanVars, retryVars, formatVars>>

Spec == Init /\ [][Next]_vars

\* SpecUsers: the handlers of two users interleaved, each user uploading
\* the one-persona transcript, choosing the role and chatting.
MessagesOfBoth ==
    {Upload(u, <<JsonFile(T1)>>) : u \in Users} \cup {Text(u, c) : u \in Users, c \in ContentPool}

InitUsers ==
    /\ tok = [l \in LinePool |-> 1]
    /\ lc_lines = <<>>
    /\ lc_max = 0
    /\ lc_out = <<>>
    /\ lc_pc = "idle"
    /\ cm_raw = <<>>
    /\ cm_res = [status |-> "ok", out |-> <<>>]
    /\ cm_pc = "idle"
    /\ g_retries = 0
    /\ g_attempt = 0
    /\ g_log = <<>>
    /\ g_pc = "idle"
    /\ g_result = None
    /\ fh_history = <<>>
    /\ fh_role = <<>>
    /\ fh_limit = 0
    /\ fh_out = <<>>
    /\ fh_pc = "idle"
    /\ sessions = <<>>
    /\ running = EmptyBag
    /\ pickers = {}
    /\ effect = Effect([kind |-> "none"], Nothing)

NextUsers ==
    \/ \E m \in MessagesOfBoth :
           OnMessageUpload(m) /\ UNCHANGED <<limitVars, cleanVars, retryVars, formatVars>>
    \/ \E m \in MessagesOfBoth :
           OnMessageText(m) /\ UNCHANGED <<limitVars, cleanVars, retryVars, formatVars>>
    \/ \E co \in BagToSet(running) :
           UploadBuilt(co) /\ UNCHANGED <<limitVars, cleanVars, retryVars, formatVars>>
    \/ \E co \in BagToSet(running) :
           UploadBuildFails(co) /\ UNCHANGED <<limitVars, cleanVars, retryVars, formatVars>>
    \/ \E co \in BagToSet(running) :
           ReplyCall(co) /\ UNCHANGED <<limitVars, cleanVars, retryVars, formatVars>>
    \/ \E co \in BagToSet(running) :
           ReplyDone(co) /\ UNCHANGED <<limitVars, cleanVars, retryVars, formatVars>>
    \/ \E co \in BagToSet(running) :
           ReplyFails(co) /\ UNCHANGED <<limitVars, cleanVars, retryVars, formatVars>>
    \/ \E p \in pickers, r \in RolePool :
           RoleSelectCallback(p, r) /\ UNCHANGED <<limitVars, cleanVars, retryVars, formatVars>>

SpecUsers == InitUsers /\ [][NextUsers]_vars

(***************************************************************************)
(* limit_context: C1, C2 (SpecLimit)                                       *)
(***************************************************************************)
\* C1: the token counts of the lines limit_context returns sum to at most the
\* budget, so no returned line has more tokens than the budget by itself.
C1_TotalWithinBudget ==
    lc_pc = "returned" =>
        /\ TokenSum(lc_out) <= lc_max
        /\ \A i \in 1..Len(lc_out) : estimate_tokens(lc_out[i]) <= lc_max

\* A call that dropped a line too long for the budget by itself and returned
\* lines that fill the budget exactly.
C1_Witness ==
    /\ lc_pc = "returned"
    /\ \E i \in 1..Len(lc_lines) : estimate_tokens(lc_lines[i]) > lc_max
    /\ lc_out # <<>>
    /\ TokenSum(lc_out) = lc_max

\* The last k lines of the input fit the budget.
SuffixFits(k) == TokenSum(Suffix(lc_lines, k)) <= lc_max

\* C2: limit_context returns the longest trailing run of the input, in the
\* input's order, whose tokens fit the budget: one more earlier line would
\* not fit, and nothing is returned when the last line alone does not fit.
C2_MaximalSuffix ==
    lc_pc = "returned" =>
        /\ \E k \in 0..Len(lc_lines) :
            /\ lc_out = Suffix(lc_lines, k)
            /\ SuffixFits(k)
            /\ k < Len(lc_lines) => ~SuffixFits(k + 1)
            /\ \A j \in (k + 1)..Len(lc_lines) : ~SuffixFits(j)
        /\ (lc_lines # <<>> /\ estimate_tokens(lc_lines[Len(lc_lines)]) > lc_max)
               => lc_out = <<>>

\* A call that kept two different lines and dropped an earlier one.
C2_Witness ==
    /\ lc_pc = "returned"
    /\ Len(lc_out) = 2
    /\ lc_out[1] # lc_out[2]
    /\ Len(lc_lines) > 2

(***************************************************************************)
(* clean_messages: C3, C4, C5, C6 (SpecClean)                              *)
(***************************************************************************)
\* C3: no two entries clean_messages returns have the same sender and the
\* same message.
C3_NoDuplicatePairs ==
    cm_pc = "returned" =>
        \A i, j \in 1..Len(cm_res.out) :
            i < j => ~(/\ cm_res.out[i].sender = cm_res.out[j].sender
                       /\ cm_res.out[i].message = cm_res.out[j].message)

\* C4: no entry clean_messages returns has an empty message or the
\* media-omitted sentinel as its message.
C4_NoEmptyNoMedia ==
    cm_pc = "returned" =>
        \A i \in 1..Len(cm_res.out) :
            /\ cm_res.out[i].message # <<>>
            /\ cm_res.out[i].message # MediaOmitted

\* A record the claim lets clean_messages drop for its message: the message
\* is absent, empty or the sentinel.
Unusable(m) ==
    \/ "message" \notin DOMAIN m
    \/ m.message = <<>>
    \/ m.message = MediaOmitted

\* Record i repeats an earlier record: the same sender and the same message.
RepeatsEarlier(raw, i) ==
    \E j \in 1..(i - 1) :
        /\ DOMAIN raw[j] = DOMAIN raw[i]
        /\ \A k \in DOMAIN raw[i] : raw[j][k] = raw[i][k]

\* The entries of the records from i on that are neither unusable nor a repeat.
RECURSIVE KeptFrom(_, _)
KeptFrom(raw, i) ==
    IF i > Len(raw) THEN <<>>
    ELSE IF Unusable(raw[i]) \/ RepeatsEarlier(raw, i) THEN KeptFrom(raw, i + 1)
    ELSE <<canonical(raw[i])>> \o KeptFrom(raw, i + 1)

\* C5: clean_messages returns the entries of the input records in input
\* order, leaving out only the records with an unusable message and the
\* records that repeat the sender and message of an earlier one.
C5_OnlyExactRepeatsDropped ==
    cm_pc = "returned" => cm_res.out = KeptFrom(cm_raw, 1)

\* C6: clean_messages raises no exception, whatever the records.
C6_NeverRaises == cm_pc # "raised"

(***************************************************************************)
(* gen_reply's retry loop: C7 (SpecRetry), C8 (FairSpecRetry)              *)
(***************************************************************************)
\* The generation service failed on the first retries-1 attempts and
\* returned on the next.
FailedThenSucceeded ==
    /\ Cardinality(Calls) = g_retries
    /\ Succeeded(g_log[Len(g_log)])
    /\ \A i \in Calls \ {Len(g_log)} : Failed(g_log[i])

\* C7: when the generation service fails retries-1 times and then returns,
\* gen_reply returns the first candidate's text, stripped, and raises nothing.
C7_ReturnsAfterFailures ==
    FailedThenSucceeded =>
        /\ g_pc = "returned"
        /\ g_result = [returned |-> strip(g_log[Len(g_log)].generations[1])]

\* Two failures, then a response whose first candidate has whitespace around it.
C7_Witness ==
    /\ g_retries >= 2
    /\ FailedThenSucceeded
    /\ g_pc = "returned"
    /\ g_result.returned # g_log[Len(g_log)].generations[1]

\* The generation service failed on every one of the `retries` attempts.
FailedEveryAttempt ==
    /\ Cardinality(Calls) = g_retries
    /\ \A i \in Calls : Failed(g_log[i])

C8_Bounded ==
    \* never more than `retries` calls
    /\ Cardinality(Calls) <= g_retries
    \* calls and sleeps alternate, from a call on: a sleep of `delay` follows a
    \* failed call, and none follows the last attempt
    /\ \A i \in 1..Len(g_log) :
        IF i % 2 = 1 THEN IsCall(g_log[i])
        ELSE g_log[i] = [kind |-> "sleep", secs |-> DefaultDelay] /\ Failed(g_log[i - 1])
    /\ Len(g_log) <= 2 * g_retries - 1
    \* after `retries` failures the last error is raised
    /\ FailedEveryAttempt =>
        /\ g_pc = "raised"
        /\ g_result = [raised |-> g_log[Len(g_log)].error]
        /\ Cardinality(Sleeps) = g_retries - 1

\* C8: the generation service is called at most `retries` times, with one
\* sleep of `delay` between two attempts and none after the last; when every
\* attempt fails the error of the last one is raised; and gen_reply ends.
C8_RaisesLastError == [](C8_Bounded) /\ <>(g_pc \in {"returned", "raised"})

\* Every attempt failed, the last with another error than the first.
C8_Witness ==
    /\ g_retries >= 2
    /\ FailedEveryAttempt
    /\ g_pc = "raised"
    /\ g_log[1].error # g_log[Len(g_log)].error

(***************************************************************************)
(* format_history_for_prompt: C17 (SpecFormat)                             *)
(***************************************************************************)
\* The characters of s that are not whitespace, in order.
RECURSIVE Squeeze(_)
Squeeze(s) ==
    IF s = <<>> THEN <<>>
    ELSE IF Head(s) \in Whitespace THEN Squeeze(Tail(s))
    ELSE <<Head(s)>> \o Squeeze(Tail(s))

\* C17: format_history_for_prompt returns min(len(history), limit) lines;
\* line i is the line of the i-th of the last `limit` entries, oldest first:
\* the entry's own characters, whitespace apart.
C17_LastWindowOldestFirst ==
    fh_pc = "returned" =>
        LET n == Len(fh_history)
            k == IF n < fh_limit THEN n ELSE fh_limit
        IN /\ Len(fh_out) = k
           /\ \A i \in 1..k : Squeeze(fh_out[i]) = Squeeze(fh_history[n - k + i])

\* Seven entries and a window of six: the last six, the first of them
\* rewritten, the oldest entry of the history unlike any of the six.
C17_Witness ==
    /\ fh_pc = "returned"
    /\ Len(fh_history) = 7
    /\ fh_limit = 6
    /\ Len(fh_out) = 6
    /\ fh_out[1] # fh_history[2]
    /\ \A i \in 2..7 : fh_history[i] # fh_history[1]
    /\ fh_out[1] # fh_out[6]

(***************************************************************************)
(* on_message: C9, C10 (Spec)                                              *)
(***************************************************************************)
\* The fields of a user's session; those Session() sets while the user has none.
SessionOf(ss, u) == IF u \in DOMAIN ss THEN ss[u] ELSE NewSession

\* This step is on_message starting on a text message of user u.
TextArrives(u) ==
    /\ effect'.kind = "text"
    /\ effect'.uid = u
    /\ effect'.out \in {Sent("guidance"), Called("typing")}

\* C9: a text message that arrives while the user's session has no index or
\* no role is answered with the guidance; no coroutine is left to call the
\* generation service, and the session's fields stay as they were.
C9_GuidanceWhenNotReady ==
    [][\A u \in Users :
        (/\ TextArrives(u)
         /\ \/ SessionOf(sessions, u).vector = None
            \/ SessionOf(sessions, u).role = None)
        => /\ effect'.out = Sent("guidance")
           /\ running' = running
           /\ SessionOf(sessions', u) = SessionOf(sessions, u)]_vars

\* The guidance was sent to a user whose session has an index and no role.
C9_Witness ==
    /\ effect = Effect(Text("u1", <<"q">>), Sent("guidance"))
    /\ "u1" \in DOMAIN sessions
    /\ sessions["u1"].vector # None
    /\ sessions["u1"].role = None

\* This step belongs to the handling of an upload and is not the one that
\* installs a built index.
UploadStepWithoutIndex ==
    /\ effect'.kind = "upload"
    /\ effect'.out # Sent("picker")

\* C10: no step of an upload changes a field of a session, except the step
\* that installs the built index: an upload rejected as empty, or whose
\* index build failed, leaves index, roles, role and history as they were.
C10_FailedUploadKeepsSession ==
    [][UploadStepWithoutIndex =>
        \A u \in Users : SessionOf(sessions', u) = SessionOf(sessions, u)]_vars

\* An index build failed for a user whose session has an index, a role and
\* a history.
C10_Witness ==
    /\ effect.kind = "upload"
    /\ effect.out.op = "raise"
    /\ effect.out.what \in Errors
    /\ "u1" \in DOMAIN sessions
    /\ sessions["u1"].vector # None
    /\ sessions["u1"].role # None
    /\ sessions["u1"].history # <<>>

(***************************************************************************)
(* on_message and RoleSelect.callback: C11-C16, C19, C20 (Spec)            *)
(***************************************************************************)
\* C11: no error of the embedding or of the generation service leaves
\* on_message as an exception: each is sent to the user as a message.
C11_ServiceErrorsSurfaced ==
    effect.out.op = "raise" => effect.out.what \notin Errors

\* This step changes the index or the roles of user u's session.
IndexOrRolesChange(u) ==
    \/ SessionOf(sessions', u).vector # SessionOf(sessions, u).vector
    \/ SessionOf(sessions', u).roles # SessionOf(sessions, u).roles

\* A session as an upload leaves it: an index, the roles of the index's
\* messages, no role, no history.
FreshlyUploaded(session) ==
    /\ session.vector # None
    /\ session.roles = roles_of(session.vector.docs)
    /\ session.role = None
    /\ session.history = <<>>

\* C12: a step that changes the index or the roles of a session leaves all
\* four fields as the upload sets them, so no state between two steps, which
\* is all another handler or callback can observe, has the index or the
\* roles of a new upload with the role or the history from before it; and
\* the roles are those of the index in every state.
C12_UploadAtomic ==
    /\ [](\A u \in DOMAIN sessions :
            IF sessions[u].vector = None THEN sessions[u].roles = <<>>
            ELSE sessions[u].roles = roles_of(sessions[u].vector.docs))
    /\ [][\A u \in Users :
            IndexOrRolesChange(u) => FreshlyUploaded(sessions'[u])]_vars

\* An upload was installed while a reply for the same user was being
\* generated: the session had a role and a history, and another handler of
\* it is suspended.
C12_Witness ==
    /\ effect = Effect(Upload("u1", <<>>), Sent("picker"))
    /\ \E co \in Suspended("generating") : co.msg.uid = "u1"
    /\ sessions["u1"].history = <<>>

\* This step is the one that follows build_vector's return for user u.
InstallStep(u) ==
    /\ effect'.kind = "upload"
    /\ effect'.uid = u
    /\ effect'.out = Sent("picker")

\* The list is strictly increasing as Python orders str: sorted, no repeats.
StrictlySorted(roles) ==
    \A i, j \in 1..Len(roles) : i < j => StrLess(roles[i], roles[j])

\* C13: the step that follows a successful index build leaves the session
\* with the index built from the upload's normalized messages, the sorted
\* distinct roles of those messages, no role and an empty history, whatever
\* it held before.
C13_UploadReplacesSession ==
    [][\A u \in Users :
        InstallStep(u) =>
            \E co \in Suspended("building") :
                /\ co.msg.uid = u
                /\ co.cleaned = clean_messages(first_json(co.msg).raw).out
                /\ co.cleaned # <<>>
                /\ running' = Resume(co)
                /\ sessions'[u].vector = FAISS(co.cleaned)
                /\ StrictlySorted(sessions'[u].roles)
                /\ {sessions'[u].roles[i] : i \in 1..Len(sessions'[u].roles)}
                       = {co.cleaned[i].role : i \in 1..Len(co.cleaned)}
                /\ sessions'[u].role = None
                /\ sessions'[u].history = <<>>]_vars

\* The transcript of two personas given out of order was installed after an
\* earlier upload of the one-persona transcript, normalized to one message.
C13_Witness ==
    /\ effect = Effect(Upload("u1", <<>>), Sent("picker"))
    /\ sessions["u1"].roles = <<<<"A">>, <<"B">>>>
    /\ Len(sessions["u1"].vector.docs) = 2
    /\ [uid |-> "u1", roles |-> <<<<"A">>>>] \in pickers
    /\ clean_messages(T1).out = <<[sender |-> <<"A">>, role |-> <<"A">>, message |-> <<"h">>]>>

\* C14: in every state the role of a session is absent or one of the
\* session's current roles.
C14_RoleAmongRoles ==
    \A u \in DOMAIN sessions :
        \/ sessions[u].role = None
        \/ \E i \in 1..Len(sessions[u].roles) : sessions[u].roles[i] = sessions[u].role.str

\* The entry has the form "<label>: <text>".
HasLabel(entry, label) == StartsWith(entry, label \o <<":", " ">>)
IsUserLine(entry) == HasLabel(entry, <<"Y", "o", "u">>)

\* C15: in every state every history entry is labelled "You" or with the
\* session's current role.
C15_LabelsAreYouOrRole ==
    \A u \in DOMAIN sessions :
        \A i \in 1..Len(sessions[u].history) :
            \/ IsUserLine(sessions[u].history[i])
            \/ /\ sessions[u].role # None
               /\ HasLabel(sessions[u].history[i], sessions[u].role.str)

\* C16: in every state a history is a user line, its reply, the next user
\* line, its reply, and so on: no user line follows an unanswered one.
C16_HistoryAlternates ==
    \A u \in DOMAIN sessions :
        \A i \in 1..Len(sessions[u].history) :
            IsUserLine(sessions[u].history[i]) <=> i % 2 = 1

\* C19: in every state a session without a role has an empty history.
C19_NoRoleNoHistory ==
    \A u \in DOMAIN sessions :
        sessions[u].role = None => sessions[u].history = <<>>

\* This step reports a failed generation to user u.
GenerationFailed(u) ==
    /\ effect'.kind = "text"
    /\ effect'.uid = u
    /\ effect'.out.op = "send"
    /\ effect'.out.what = "error"

\* This step starts gen_reply for user u.
GenReplyCalled(u) ==
    /\ effect'.kind = "text"
    /\ effect'.uid = u
    /\ effect'.out.op = "call"
    /\ effect'.out.what = "gen_reply"

\* C20: the step that reports a failed generation leaves index, roles and
\* role as they were and the history ending with the user line of the
\* message; and a later call of gen_reply is given the session's history,
\* that line included.
C20_FailureKeepsUserLine ==
    [][\A u \in Users :
        /\ GenerationFailed(u) =>
            /\ sessions'[u].vector = sessions[u].vector
            /\ sessions'[u].roles = sessions[u].roles
            /\ sessions'[u].role = sessions[u].role
            /\ sessions'[u].history # <<>>
            /\ IsUserLine(sessions'[u].history[Len(sessions'[u].history)])
        /\ GenReplyCalled(u) =>
            effect'.out.args.history = sessions'[u].history]_vars

(***************************************************************************)
(* Sessions of two users: C18 (SpecUsers)                                  *)
(***************************************************************************)
\* This step belongs to the handling of a message or a selection of user u.
StepOf(u) ==
    /\ effect'.kind \in {"upload", "text", "select"}
    /\ effect'.uid = u

\* C18: a step of the handling of an upload, a role selection or a reply of
\* one user leaves the session of every other user as it was: neither created
\* nor changed in index, roles, role or history.
C18_SessionsIsolated ==
    [][\A a, b \in Users :
        (a # b /\ StepOf(a)) =>
            /\ (b \in DOMAIN sessions') = (b \in DOMAIN sessions)
            /\ SessionOf(sessions', b) = SessionOf(sessions, b)]_vars

\* An upload of the first user was installed while a reply for the second
\* user was being generated: the second user has an index, a role and a
\* history, the first user's session is the fresh one.
C18_Witness ==
    /\ effect = Effect(Upload("u1", <<>>), Sent("picker"))
    /\ \E co \in Suspended("generating") : co.msg.uid = "u2"
    /\ sessions["u1"].role = None
    /\ "u2" \in DOMAIN sessions
    /\ sessions["u2"].vector # None
    /\ sessions["u2"].role = Str(<<"A">>)
    /\ sessions["u2"].history # <<>>
====
